---- MODULE Spec2Model ----
(***************************************************************************)
(* SimpleMatch (package matcha): the Lexer, the Parser and the             *)
(* backtracking Matcher, modelled from lexer.py, parser.py, tokens.py and  *)
(* matcher.py.                                                             *)
(*                                                                         *)
(* A Python str is a sequence of one-character strings; positions are      *)
(* 0-based as in the source (s[i] is s[i + 1] here).  An Optional value    *)
(* is None (the empty tuple) or Some(v) (a one-element tuple).  A resolved  *)
(* character set (a str in the source) is kept as the sequence of its      *)
(* code points, in the order the source stores them.                       *)
(***************************************************************************)
EXTENDS Integers, Sequences, FiniteSets, TLC

\* ------------------------------------------------------------------ bounds
\* Longest text of the general specification.
MaxTextLen == 3
\* Most matches find_all may record before the model stops following it.
MaxResults == 5
\* Largest integer written in a generated length field.
MaxNum == 10
\* Longest text of the single-node specification.
MaxRunLen == 5
\* Longest pattern of the literal-only specification.
MaxLitLen == 3
\* The orders in which a set may be iterated are numbered 0..MaxSeed.
MaxSeed == 2
\* Longest text handed to a Matcher that shares its AST.
MaxSharedLen == 2
\* Longest pattern of the escape specification.
MaxEscLen == 3
\* Longest text of the step-by-step search.
MaxSearchLen == 3
\* Longest text matched against the variants of a literal-alternatives pattern.
MaxVariantLen == 3

\* ------------------------------------------------------- Python primitives
None == <<>>
Some(v) == <<v>>
Get(o) == o[1]

NoError == [type |-> "", message |-> ""]
LexerError(message) == [type |-> "LexerError", message |-> message]
ValueError == [type |-> "ValueError", message |-> "invalid literal for int()"]

\* What a routine hands back: a value, or the exception it raised.
Returned(v) == [raised |-> NoError, value |-> v]
Raised(e) == [raised |-> e, value |-> None]

\* U+00B2 SUPERSCRIPT TWO: str.isdigit() is True for it, int() rejects it.
SUP2 == "sup2"
\* U+0060 GRAVE ACCENT, the delimiter of a literal alternative.
BT == "grave"

\* ord(): the code point of each character the model uses.
ord ==
  (" " :> 32) @@ ("!" :> 33) @@ ("-" :> 45) @@
  ("0" :> 48) @@ ("1" :> 49) @@ ("2" :> 50) @@ ("3" :> 51) @@ ("4" :> 52) @@
  ("5" :> 53) @@ ("6" :> 54) @@ ("7" :> 55) @@ ("8" :> 56) @@ ("9" :> 57) @@
  (":" :> 58) @@ ("<" :> 60) @@ ("=" :> 61) @@ (">" :> 62) @@
  ("A" :> 65) @@ ("X" :> 88) @@ ("[" :> 91) @@ ("\\" :> 92) @@ ("]" :> 93) @@
  (BT :> 96) @@ ("a" :> 97) @@ ("b" :> 98) @@ ("c" :> 99) @@ ("d" :> 100) @@
  ("e" :> 101) @@ ("h" :> 104) @@ ("i" :> 105) @@ ("m" :> 109) @@
  ("n" :> 110) @@ ("o" :> 111) @@ ("r" :> 114) @@ ("s" :> 115) @@
  ("t" :> 116) @@ ("u" :> 117) @@ ("x" :> 120) @@ ("z" :> 122) @@
  ("|" :> 124) @@ (SUP2 :> 178)

Chars == DOMAIN ord

\* chr(), on the code points of Chars.
chr(n) == CHOOSE c \in Chars : ord[c] = n

\* str.isdigit() of one character.
isdigit(c) == (ord[c] >= 48 /\ ord[c] <= 57) \/ c = SUP2

\* The characters int() accepts as digits.
isdecimal(c) == ord[c] >= 48 /\ ord[c] <= 57

\* The characters str.strip() removes.
isspace(c) == c = " "

\* str.lower() of one character.
lower(c) == IF ord[c] >= 65 /\ ord[c] <= 90 THEN chr(ord[c] + 32) ELSE c

Lower(s) == [i \in 1..Len(s) |-> lower(s[i])]

\* s[i:j]
Slice(s, i, j) == SubSeq(s, i + 1, IF j < Len(s) THEN j ELSE Len(s))

\* s.find(c, from): the first index >= from holding c, or -1.
RECURSIVE Find(_, _, _)
Find(s, c, from) ==
  IF from >= Len(s) THEN -1
  ELSE IF s[from + 1] = c THEN from
  ELSE Find(s, c, from + 1)

\* s.split(sep)
RECURSIVE Split(_, _)
Split(s, sep) ==
  LET i == Find(s, sep, 0)
  IN IF i = -1 THEN <<s>>
     ELSE <<Slice(s, 0, i)>> \o Split(Slice(s, i + 1, Len(s)), sep)

RECURSIVE LStrip(_)
LStrip(s) == IF s # <<>> /\ isspace(s[1]) THEN LStrip(Tail(s)) ELSE s

RECURSIVE RStrip(_)
RStrip(s) ==
  IF s # <<>> /\ isspace(s[Len(s)]) THEN RStrip(SubSeq(s, 1, Len(s) - 1)) ELSE s

\* s.strip()
Strip(s) == RStrip(LStrip(s))

\* s.isdigit(): non-empty and every character a digit.
IsDigitStr(s) == s # <<>> /\ \A i \in 1..Len(s) : isdigit(s[i])

\* int(s) of a string of decimal digits.
RECURSIVE DecimalValue(_)
DecimalValue(s) ==
  IF s = <<>> THEN 0
  ELSE 10 * DecimalValue(SubSeq(s, 1, Len(s) - 1)) + (ord[s[Len(s)]] - 48)

\* int(s): ValueError unless every character is a decimal digit.
IntOf(s) ==
  IF \A i \in 1..Len(s) : isdecimal(s[i])
  THEN Returned(DecimalValue(s))
  ELSE Raised(ValueError)

\* The code points of S in ascending order.
RECURSIVE Ascending(_)
Ascending(S) ==
  IF S = {} THEN <<>>
  ELSE LET m == CHOOSE x \in S : \A y \in S : x <= y
       IN <<m>> \o Ascending(S \ {m})

\* The seed-th order of the items: the digits of the seed, least significant
\* first, pick the next item among those left.
RECURSIVE Permuted(_, _)
Permuted(items, seed) ==
  IF items = <<>> THEN <<>>
  ELSE LET n == Len(items)
           i == (seed % n) + 1
       IN <<items[i]>>
            \o Permuted(SubSeq(items, 1, i - 1) \o SubSeq(items, i + 1, n),
                        seed \div n)

\* Iterating over a set: the language fixes no order, the seed picks one.
SetIter(S, seed) == Permuted(Ascending(S), seed)

\* sorted(iterable): the insertion of x into an ascending list.
RECURSIVE Insert(_, _)
Insert(sorted, x) ==
  IF sorted = <<>> THEN <<x>>
  ELSE IF x <= Head(sorted) THEN <<x>> \o sorted
  ELSE <<Head(sorted)>> \o Insert(Tail(sorted), x)

\* ''.join(char_set) as it would be without sorted(): the set's own order.
Sorted_Unsorted(items) == items

\* sorted(iterable) of code points.
RECURSIVE Sorted(_)
Sorted(items) ==
  IF items = <<>> THEN <<>>
  ELSE Insert(Sorted(Tail(items)), Head(items))

\* startswith as it would be if it never looked at the text.
StartsWith_Always(s, prefix) == TRUE

\* s.startswith(prefix)
StartsWith(s, prefix) ==
  Len(prefix) <= Len(s) /\ SubSeq(s, 1, Len(prefix)) = prefix

\* ----------------------------------------------------------------- tokens
\* CharType: the type names.
CharTypeValues ==
  { <<"s", "t", "r">>, <<"a", "n", "u", "m">>, <<"h", "e", "x">>,
    <<"o", "c", "t">>, <<"d", "e", "c">>, <<"b", "i", "n">>, <<"x">> }

X == <<"x">>

CodeRange(a, b) == [i \in 1..(b - a + 1) |-> a + i - 1]

\* string.ascii_letters, string.digits, string.hexdigits
ascii_letters == CodeRange(97, 122) \o CodeRange(65, 90)
digits == CodeRange(48, 57)
hexdigits == CodeRange(48, 57) \o CodeRange(97, 102) \o CodeRange(65, 70)

DEFAULT_CHAR_SETS(char_type) ==
  CASE char_type = <<"s", "t", "r">> -> ascii_letters
    [] char_type = <<"a", "n", "u", "m">> -> ascii_letters \o digits
    [] char_type = <<"h", "e", "x">> -> hexdigits
    [] char_type = <<"o", "c", "t">> -> CodeRange(48, 55)
    [] char_type = <<"d", "e", "c">> -> digits
    [] char_type = <<"b", "i", "n">> -> CodeRange(48, 49)

LengthConstraint(min_len, max_len, exact_len) ==
  [min_len |-> min_len, max_len |-> max_len, exact_len |-> exact_len]

\* LengthConstraint.get_min
get_min(length) ==
  IF length.exact_len # None THEN Get(length.exact_len)
  ELSE IF length.min_len # None THEN Get(length.min_len) ELSE 1

\* LengthConstraint.get_max
get_max(length) ==
  IF length.exact_len # None THEN length.exact_len ELSE length.max_len

LiteralToken(char) ==
  [token_type |-> "LITERAL", value |-> <<char>>, char_type |-> None,
   char_set |-> None, length |-> None, negated |-> FALSE, literals |-> None]

PatternToken(content, char_type, char_set, length, negated, literals) ==
  [token_type |-> "PATTERN", value |-> <<"[">> \o content \o <<"]">>,
   char_type |-> Some(char_type), char_set |-> char_set,
   length |-> Some(length), negated |-> negated, literals |-> literals]

\* ------------------------------------------------------------------ lexer
\* What one step of Lexer.tokenize leaves: the token it yields or the exception
\* it raises, and self.pos.
Yielded(token, pos) == [raised |-> NoError, token |-> token, pos |-> pos]
RaisedAt(e, pos) == [raised |-> e, token |-> None, pos |-> pos]

\* Lexer._parse_literal
ParseLiteral(pattern, pos) ==
  Yielded(LiteralToken(pattern[pos + 1]), pos + 1)

\* _parse_escape as it would be if it kept the backslash as the literal.
ParseEscape_KeepBackslash(pattern, pos) ==
  IF pos + 1 >= Len(pattern)
  THEN RaisedAt(LexerError("Escape sequence at end of pattern"), pos)
  ELSE Yielded(LiteralToken(pattern[pos + 1]), pos + 1)

\* Lexer._parse_escape
ParseEscape(pattern, pos) ==
  IF pos + 1 >= Len(pattern)
  THEN RaisedAt(LexerError("Escape sequence at end of pattern"), pos)
  ELSE Yielded(LiteralToken(pattern[pos + 2]), pos + 2)

\* Lexer._parse_char_type
ParseCharType(type_str) ==
  LET t == Lower(Strip(type_str))
  IN IF t \in CharTypeValues THEN Returned(t)
     ELSE Raised(LexerError("Invalid type"))

\* Lexer._parse_literals: the loop from index i on.
RECURSIVE ParseLiteralsFrom(_, _, _)
ParseLiteralsFrom(range_str, i, literals) ==
  IF i >= Len(range_str) THEN literals
  ELSE IF range_str[i + 1] = BT
  THEN LET end == Find(range_str, BT, i + 1)
       IN IF end = -1
          THEN Append(literals, Slice(range_str, i + 1, Len(range_str)))
          ELSE ParseLiteralsFrom(range_str, end + 1,
                                 Append(literals, Slice(range_str, i + 1, end)))
  ELSE ParseLiteralsFrom(range_str, i + 1, literals)

\* Lexer._parse_literals
ParseLiterals(range_str) ==
  LET literals == ParseLiteralsFrom(range_str, 0, <<>>)
  IN IF literals # <<>> THEN Some(literals) ELSE None

\* Lexer._parse_range: the character-set loop from index i on.
RECURSIVE ParseCharSetFrom(_, _, _)
ParseCharSetFrom(range_str, i, char_set) ==
  IF i >= Len(range_str) THEN char_set
  ELSE LET char == range_str[i + 1]
       IN IF char = "|" THEN ParseCharSetFrom(range_str, i + 1, char_set)
          ELSE IF i + 2 < Len(range_str) /\ range_str[i + 2] = "-"
          THEN ParseCharSetFrom(range_str, i + 3,
                                char_set \cup (ord[char]..ord[range_str[i + 3]]))
          ELSE ParseCharSetFrom(range_str, i + 1, char_set \cup {ord[char]})

\* Lexer._parse_range; seed is the order in which char_set is iterated.
ParseRange(range_str0, char_type, seed) ==
  LET range_str1 == Strip(range_str0)
      negated == range_str1 # <<>> /\ range_str1[1] = "!"
      range_str == IF negated THEN Tail(range_str1) ELSE range_str1
  IN IF char_type = X
     THEN [char_set |-> None, negated |-> FALSE, literals |-> None]
     ELSE IF range_str1 = <<>>
     THEN [char_set |-> Some(DEFAULT_CHAR_SETS(char_type)), negated |-> FALSE,
           literals |-> None]
     ELSE IF \E k \in 1..Len(range_str) : range_str[k] = BT
     THEN [char_set |-> None, negated |-> negated,
           literals |-> ParseLiterals(range_str)]
     ELSE [char_set |->
             Some(Sorted(SetIter(ParseCharSetFrom(range_str, 0, {}), seed))),
           negated |-> negated, literals |-> None]

\* Lexer._extract_number
RECURSIVE DigitsEnd(_, _)
DigitsEnd(s, end) ==
  IF end < Len(s) /\ isdigit(s[end + 1]) THEN DigitsEnd(s, end + 1) ELSE end

ExtractNumber(s, start) ==
  LET end == DigitsEnd(s, start)
  IN IF end = start
     THEN Raised(LexerError("Expected number in length constraint"))
     ELSE LET n == IntOf(Slice(s, start, end))
          IN IF n.raised # NoError THEN n
             ELSE Returned([num |-> n.value, end |-> end])

\* Lexer._parse_length: the operator loop from index i on.
RECURSIVE ParseLengthFrom(_, _, _, _)
ParseLengthFrom(length_str, i, min_len, max_len) ==
  IF i >= Len(length_str)
  THEN Returned(LengthConstraint(
         IF min_len # None THEN min_len ELSE Some(1), max_len, None))
  ELSE LET two == Slice(length_str, i, i + 2)
           wide == two = <<">", "=">> \/ two = <<"<", "=">>
           op == IF wide THEN two ELSE <<length_str[i + 1]>>
           n == ExtractNumber(length_str, i + Len(op))
       IN IF op \notin {<<">", "=">>, <<"<", "=">>, <<">">>, <<"<">>}
          THEN Raised(LexerError("Invalid length constraint"))
          ELSE IF n.raised # NoError THEN n
          ELSE IF op = <<">", "=">>
          THEN ParseLengthFrom(length_str, n.value.end, Some(n.value.num), max_len)
          ELSE IF op = <<"<", "=">>
          THEN ParseLengthFrom(length_str, n.value.end, min_len, Some(n.value.num))
          ELSE IF op = <<">">>
          THEN ParseLengthFrom(length_str, n.value.end, Some(n.value.num + 1), max_len)
          ELSE ParseLengthFrom(length_str, n.value.end, min_len, Some(n.value.num - 1))

\* _parse_length as it would be if a bare number set only the minimum.
ParseLength_ExactAsMin(length_str0) ==
  LET length_str == Strip(length_str0)
  IN IF length_str = <<>> THEN Returned(LengthConstraint(Some(1), None, None))
     ELSE IF IsDigitStr(length_str)
     THEN LET n == IntOf(length_str)
          IN IF n.raised # NoError THEN n
             ELSE Returned(LengthConstraint(Some(n.value), None, None))
     ELSE ParseLengthFrom(length_str, 0, None, None)

\* Lexer._parse_length
ParseLength(length_str0) ==
  LET length_str == Strip(length_str0)
  IN IF length_str = <<>> THEN Returned(LengthConstraint(Some(1), None, None))
     ELSE IF IsDigitStr(length_str)
     THEN LET n == IntOf(length_str)
          IN IF n.raised # NoError THEN n
             ELSE Returned(LengthConstraint(Some(1), None, Some(n.value)))
     ELSE ParseLengthFrom(length_str, 0, None, None)

\* Lexer._parse_pattern_token
ParsePatternToken(pattern, pos, seed) ==
  LET end == Find(pattern, "]", pos + 1)
      content == Slice(pattern, pos + 1, end)
      parts == Split(content, ":")
      char_type == ParseCharType(parts[1])
      rng == ParseRange(parts[2], char_type.value, seed)
      length == ParseLength(parts[3])
  IN IF end = -1
     THEN RaisedAt(LexerError("Unclosed pattern bracket"), pos + 1)
     ELSE IF Len(parts) # 3
     THEN RaisedAt(LexerError("Pattern must have format [type:range:length]"),
                   end + 1)
     ELSE IF char_type.raised # NoError THEN RaisedAt(char_type.raised, end + 1)
     ELSE IF length.raised # NoError THEN RaisedAt(length.raised, end + 1)
     ELSE Yielded(PatternToken(content, char_type.value, rng.char_set,
                               length.value, rng.negated, rng.literals),
                  end + 1)

\* Lexer.tokenize: one iteration of its loop, from self.pos = pos.
NextToken(pattern, pos, seed) ==
  IF pattern[pos + 1] = "[" THEN ParsePatternToken(pattern, pos, seed)
  ELSE IF pattern[pos + 1] = "\\" THEN ParseEscape(pattern, pos)
  ELSE ParseLiteral(pattern, pos)

\* ----------------------------------------------------------------- parser
LiteralNode(value) == [kind |-> "LiteralNode", value |-> value]

PatternNode(char_set, min_len, max_len, negated, literals) ==
  [kind |-> "PatternNode", char_set |-> char_set, min_len |-> min_len,
   max_len |-> max_len, negated |-> negated, literals |-> literals]

\* Parser._token_to_node
TokenToNode(token) ==
  IF token.token_type = "LITERAL" THEN LiteralNode(token.value)
  ELSE PatternNode(token.char_set, get_min(Get(token.length)),
                   get_max(Get(token.length)), token.negated, token.literals)

\* ---------------------------------------------------------------- matcher
\* What the recursive search hands back: the (success, end_position) tuple, or
\* the TypeError it raised.
Result(success, end_pos) ==
  [success |-> success, end_pos |-> end_pos, raised |-> NoError]
TypeError ==
  [success |-> FALSE, end_pos |-> 0,
   raised |-> [type |-> "TypeError",
               message |-> "argument of type 'NoneType' is not iterable"]]

\* Truthiness of an Optional[str] or Optional[list]: neither None nor empty.
Truthy(o) == o # None /\ Get(o) # <<>>

\* Matcher._match_pattern, lines 142-166: the run of matching characters from
\* pos on, match_len counted so far.  char_set is set(node.char_set), or None
\* when node.char_set is None or empty; a membership test on None raises.
RECURSIVE CountRun(_, _, _, _)
CountRun(text, pos, node, match_len) ==
  IF pos >= Len(text) THEN [match_len |-> match_len, raised |-> NoError]
  ELSE LET char == text[pos + 1]
           is_wildcard == node.char_set = None /\ ~Truthy(node.literals)
           char_set == IF Truthy(node.char_set)
                       THEN Some({Get(node.char_set)[k] :
                                    k \in 1..Len(Get(node.char_set))})
                       ELSE None
           matches == IF is_wildcard THEN TRUE
                      ELSE IF node.negated THEN ord[char] \notin Get(char_set)
                      ELSE ord[char] \in Get(char_set)
       IN IF ~is_wildcard /\ char_set = None
          THEN [match_len |-> match_len, raised |-> TypeError.raised]
          ELSE IF ~matches THEN [match_len |-> match_len, raised |-> NoError]
          ELSE IF node.max_len # None /\ match_len + 1 >= Get(node.max_len)
          THEN [match_len |-> match_len + 1, raised |-> NoError]
          ELSE CountRun(text, pos + 1, node, match_len + 1)

RECURSIVE MatchAt(_, _, _, _)
RECURSIVE TryLengths(_, _, _, _, _, _)
RECURSIVE MatchLiteralsFrom(_, _, _, _, _, _)

\* The loop as it would be if it ran down to length 0 whatever the minimum.
RECURSIVE TryLengths_IgnoreMin(_, _, _, _, _, _)
TryLengths_IgnoreMin(ast, text, text_pos, ast_idx, node, try_len) ==
  IF try_len < 0 THEN Result(FALSE, text_pos)
  ELSE IF node.max_len # None /\ try_len > Get(node.max_len)
  THEN TryLengths_IgnoreMin(ast, text, text_pos, ast_idx, node, try_len - 1)
  ELSE LET r == MatchAt(ast, text, text_pos + try_len, ast_idx + 1)
       IN IF r.raised # NoError \/ r.success THEN r
          ELSE TryLengths_IgnoreMin(ast, text, text_pos, ast_idx, node,
                                    try_len - 1)

\* Matcher._match_pattern, lines 173-186: the loop over
\* range(max_try, min_try - 1, -1), from try_len on.
TryLengths(ast, text, text_pos, ast_idx, node, try_len) ==
  IF try_len < node.min_len THEN Result(FALSE, text_pos)
  ELSE IF try_len < 0
          \/ (node.max_len # None /\ try_len > Get(node.max_len))
  THEN TryLengths(ast, text, text_pos, ast_idx, node, try_len - 1)
  ELSE LET r == MatchAt(ast, text, text_pos + try_len, ast_idx + 1)
       IN IF r.raised # NoError \/ r.success THEN r
          ELSE TryLengths(ast, text, text_pos, ast_idx, node, try_len - 1)

\* The loop as it would be if the first alternative the text starts with were
\* taken whatever its continuation gives.
RECURSIVE MatchLiteralsFrom_FirstPrefix(_, _, _, _, _, _)
MatchLiteralsFrom_FirstPrefix(ast, text, text_pos, ast_idx, node, k) ==
  IF k > Len(Get(node.literals)) THEN Result(FALSE, text_pos)
  ELSE LET literal == Get(node.literals)[k]
       IN IF StartsWith(Slice(text, text_pos, Len(text)), literal)
          THEN MatchAt(ast, text, text_pos + Len(literal), ast_idx + 1)
          ELSE MatchLiteralsFrom_FirstPrefix(ast, text, text_pos, ast_idx, node,
                                             k + 1)

\* Matcher._match_literals: the loop over node.literals, from the k-th on.
MatchLiteralsFrom(ast, text, text_pos, ast_idx, node, k) ==
  IF k > Len(Get(node.literals)) THEN Result(FALSE, text_pos)
  ELSE LET literal == Get(node.literals)[k]
       IN IF StartsWith(Slice(text, text_pos, Len(text)), literal)
          THEN LET r == MatchAt(ast, text, text_pos + Len(literal), ast_idx + 1)
               IN IF r.raised # NoError \/ r.success THEN r
                  ELSE MatchLiteralsFrom(ast, text, text_pos, ast_idx, node, k + 1)
          ELSE MatchLiteralsFrom(ast, text, text_pos, ast_idx, node, k + 1)

\* _match_literals as it would be if the node's length constraint applied to
\* the alternative taken.
MatchLiterals_WithinLength(ast, text, text_pos, ast_idx, node) ==
  LET Fits(literal) ==
        /\ Len(literal) >= node.min_len
        /\ node.max_len # None => Len(literal) <= Get(node.max_len)
      fitting == [node EXCEPT !.literals = Some(SelectSeq(Get(node.literals), Fits))]
  IN MatchLiteralsFrom(ast, text, text_pos, ast_idx, fitting, 1)

\* Matcher._match_literals
MatchLiterals(ast, text, text_pos, ast_idx, node) ==
  MatchLiteralsFrom(ast, text, text_pos, ast_idx, node, 1)

\* Matcher._match_pattern
MatchPattern(ast, text, text_pos, ast_idx, node) ==
  IF Truthy(node.literals) THEN MatchLiterals(ast, text, text_pos, ast_idx, node)
  ELSE LET run == CountRun(text, text_pos, node, 0)
           tried == TryLengths(ast, text, text_pos, ast_idx, node, run.match_len)
           last == MatchAt(ast, text, text_pos, ast_idx + 1)
       IN IF run.raised # NoError THEN TypeError
          ELSE IF tried.raised # NoError \/ tried.success THEN tried
          ELSE IF node.min_len = 0 /\ run.match_len = 0
          THEN (IF last.raised # NoError \/ last.success THEN last
                ELSE Result(FALSE, text_pos))
          ELSE Result(FALSE, text_pos)

\* Matcher._match_at
MatchAt(ast, text, text_pos, ast_idx) ==
  IF ast_idx >= Len(ast) THEN Result(TRUE, text_pos)
  ELSE LET node == ast[ast_idx + 1]
       IN IF node.kind = "LiteralNode"
          THEN (IF text_pos >= Len(text) THEN Result(FALSE, text_pos)
                ELSE IF <<text[text_pos + 1]>> # node.value
                THEN Result(FALSE, text_pos)
                ELSE MatchAt(ast, text, text_pos + 1, ast_idx + 1))
          ELSE MatchPattern(ast, text, text_pos, ast_idx, node)

\* MatchResult
MatchResult(matched, value, start, end) ==
  [matched |-> matched, value |-> value, start |-> start, end |-> end]

\* MatchResult(matched=False): the dataclass defaults.
NoMatch == MatchResult(FALSE, <<>>, 0, 0)

\* match_full as it would be without the test that the match ends where the
\* text ends.
MatchFullResult_AnyEnd(text, r) ==
  IF r.success THEN MatchResult(TRUE, text, 0, Len(text)) ELSE NoMatch

\* Matcher.match_full, given what _match_at(text, 0, 0) returned.
MatchFullResult(text, r) ==
  IF r.success /\ r.end_pos = Len(text)
  THEN MatchResult(TRUE, text, 0, Len(text))
  ELSE NoMatch

\* Matcher.match_full as a whole.
MatchFullOf(ast, text) ==
  LET r == MatchAt(ast, text, 0, 0)
  IN IF r.raised # NoError THEN Raised(r.raised)
     ELSE Returned(Some(MatchFullResult(text, r)))

\* Matcher.find_first as a whole: its loop from start on.
RECURSIVE FindFirstFrom(_, _, _)
FindFirstFrom(ast, text, start) ==
  IF start >= Len(text) THEN Returned(None)
  ELSE LET r == MatchAt(ast, text, start, 0)
       IN IF r.raised # NoError THEN Raised(r.raised)
          ELSE IF r.success
          THEN Returned(Some(MatchResult(TRUE, Slice(text, start, r.end_pos),
                                         start, r.end_pos)))
          ELSE FindFirstFrom(ast, text, start + 1)

\* find_all has not returned after MaxResults matches.
StillRunning(results) == [raised |-> NoError, value |-> results, running |-> TRUE]

\* Matcher.find_all as a whole: its loop from pos on.
RECURSIVE FindAllFrom(_, _, _, _)
FindAllFrom(ast, text, pos, results) ==
  IF pos >= Len(text) THEN Returned(results)
  ELSE IF Len(results) >= MaxResults THEN StillRunning(results)
  ELSE LET r == MatchAt(ast, text, pos, 0)
       IN IF r.raised # NoError THEN Raised(r.raised)
          ELSE IF r.success
          THEN FindAllFrom(ast, text, r.end_pos,
                           Append(results,
                                  MatchResult(TRUE, Slice(text, pos, r.end_pos),
                                              pos, r.end_pos)))
          ELSE FindAllFrom(ast, text, pos + 1, results)

\* match(pattern, text), lines 230-233, given the AST the pattern parsed to:
\* result.matched of match_full.
match(ast, text) ==
  LET r == MatchFullOf(ast, text)
  IN IF r.raised # NoError THEN r ELSE Returned(Get(r.value).matched)

\* find(pattern, text), lines 252-255, given the AST the pattern parsed to:
\* "result.value if result else None", a MatchResult being true when matched.
find(ast, text) ==
  LET r == FindFirstFrom(ast, text, 0)
  IN IF r.raised # NoError THEN r
     ELSE IF r.value # None /\ Get(r.value).matched
     THEN Returned(Some(Get(r.value).value))
     ELSE Returned(None)

\* ------------------------------------------------------------------ state
VARIABLES
  pattern,   \* the pattern string handed to Parser
  text,      \* the text handed to the Matcher
  lex_pos,   \* Lexer.pos
  tokens,    \* the tokens Lexer.tokenize has yielded
  ast,       \* Parser.parse's ast, then Matcher.ast
  pc,        \* "parse", "compiled", "match_full", "find_first", "find_all",
             \* "done", "raised"
  op,        \* the Matcher method called: "none" until one is
  error,     \* the exception that ended the run, NoError if none
  result,    \* what match_full or find_first returned
  start,     \* find_first's loop variable
  pos,       \* find_all's cursor
  results,   \* find_all's list
  stack,     \* the activations of _match_at, outermost first
  ret,       \* the tuple the activation that just returned handed back
  others,    \* the locals of the threads that are not running
  prev_ast   \* the AST an earlier Parser(pattern).parse() returned

vars == <<pattern, text, lex_pos, tokens, ast, pc, op, error, result, start,
          pos, results, stack, ret, others, prev_ast>>

\* Parser(pattern) constructed and a text chosen, nothing run yet.
InitWith(patterns, texts) ==
  /\ pattern \in patterns
  /\ text \in texts
  /\ lex_pos = 0
  /\ tokens = <<>>
  /\ ast = <<>>
  /\ pc = "parse"
  /\ op = "none"
  /\ error = NoError
  /\ result = None
  /\ start = 0
  /\ pos = 0
  /\ results = <<>>
  /\ stack = <<>>
  /\ ret = None
  /\ others = <<>>
  /\ prev_ast = None

\* Parser.parse: one iteration of "for token in self.lexer.tokenize()".
Tokenize ==
  /\ pc = "parse"
  /\ lex_pos < Len(pattern)
  /\ \E seed \in 0..MaxSeed :
       LET r == NextToken(pattern, lex_pos, seed)
       IN /\ lex_pos' = r.pos
          /\ pc' = IF r.raised # NoError THEN "raised" ELSE pc
          /\ error' = r.raised
          /\ tokens' = IF r.raised # NoError THEN tokens
                       ELSE Append(tokens, r.token)
          /\ ast' = IF r.raised # NoError THEN ast
                    ELSE Append(ast, TokenToNode(r.token))
  /\ UNCHANGED <<pattern, text, op, result, start, pos, results>>
  /\ UNCHANGED <<stack, ret, others, prev_ast>>

\* Parser.parse: the token stream is exhausted, the AST is returned.
ParseReturn ==
  /\ pc = "parse"
  /\ lex_pos >= Len(pattern)
  /\ pc' = "compiled"
  /\ UNCHANGED <<pattern, text, lex_pos, tokens, ast, op, error, result, start,
                 pos, results>>
  /\ UNCHANGED <<stack, ret, others, prev_ast>>

\* Matcher.match_full
MatchFull ==
  /\ pc = "compiled"
  /\ LET r == MatchAt(ast, text, 0, 0)
     IN /\ pc' = IF r.raised # NoError THEN "raised" ELSE "done"
        /\ error' = r.raised
        /\ result' = IF r.raised # NoError THEN result
                     ELSE Some(MatchFullResult(text, r))
  /\ op' = "match_full"
  /\ UNCHANGED <<pattern, text, lex_pos, tokens, ast, start, pos, results>>
  /\ UNCHANGED <<stack, ret, others, prev_ast>>

\* Matcher.find_first is called: "for start in range(len(text))" begins.
FindFirstCall ==
  /\ pc = "compiled"
  /\ pc' = "find_first"
  /\ op' = "find_first"
  /\ start' = 0
  /\ UNCHANGED <<pattern, text, lex_pos, tokens, ast, error, result, pos,
                 results>>
  /\ UNCHANGED <<stack, ret, others, prev_ast>>

\* Matcher.find_first: one iteration of its loop.
FindFirstStep ==
  /\ pc = "find_first"
  /\ start < Len(text)
  /\ LET r == MatchAt(ast, text, start, 0)
     IN /\ pc' = IF r.raised # NoError THEN "raised"
                 ELSE IF r.success THEN "done" ELSE pc
        /\ error' = r.raised
        /\ result' = IF r.raised = NoError /\ r.success
                     THEN Some(MatchResult(TRUE, Slice(text, start, r.end_pos),
                                           start, r.end_pos))
                     ELSE result
        /\ start' = IF r.raised = NoError /\ ~r.success THEN start + 1 ELSE start
  /\ UNCHANGED <<pattern, text, lex_pos, tokens, ast, op, pos, results>>
  /\ UNCHANGED <<stack, ret, others, prev_ast>>

\* Matcher.find_first: the loop ran out of offsets, None is returned.
FindFirstReturn ==
  /\ pc = "find_first"
  /\ start >= Len(text)
  /\ pc' = "done"
  /\ result' = None
  /\ UNCHANGED <<pattern, text, lex_pos, tokens, ast, op, error, start, pos,
                 results>>
  /\ UNCHANGED <<stack, ret, others, prev_ast>>

\* Matcher.find_all is called: results = [], pos = 0.
FindAllCall ==
  /\ pc = "compiled"
  /\ pc' = "find_all"
  /\ op' = "find_all"
  /\ pos' = 0
  /\ results' = <<>>
  /\ UNCHANGED <<pattern, text, lex_pos, tokens, ast, error, result, start>>
  /\ UNCHANGED <<stack, ret, others, prev_ast>>

\* find_all's iteration as it would be if the cursor moved on by one after a
\* match as it does after a failure.
FindAllStep_ByOne ==
  /\ pc = "find_all"
  /\ pos < Len(text)
  /\ Len(results) < MaxResults
  /\ LET r == MatchAt(ast, text, pos, 0)
     IN /\ pc' = IF r.raised # NoError THEN "raised" ELSE pc
        /\ error' = r.raised
        /\ results' = IF r.raised = NoError /\ r.success
                      THEN Append(results,
                                  MatchResult(TRUE, Slice(text, pos, r.end_pos),
                                              pos, r.end_pos))
                      ELSE results
        /\ pos' = IF r.raised # NoError THEN pos ELSE pos + 1
  /\ UNCHANGED <<pattern, text, lex_pos, tokens, ast, op, result, start>>
  /\ UNCHANGED <<stack, ret, others, prev_ast>>

\* Matcher.find_all: one iteration of "while pos < len(text)".
FindAllStep ==
  /\ pc = "find_all"
  /\ pos < Len(text)
  /\ Len(results) < MaxResults
  /\ LET r == MatchAt(ast, text, pos, 0)
     IN /\ pc' = IF r.raised # NoError THEN "raised" ELSE pc
        /\ error' = r.raised
        /\ results' = IF r.raised = NoError /\ r.success
                      THEN Append(results,
                                  MatchResult(TRUE, Slice(text, pos, r.end_pos),
                                              pos, r.end_pos))
                      ELSE results
        /\ pos' = IF r.raised # NoError THEN pos
                  ELSE IF r.success THEN r.end_pos ELSE pos + 1
  /\ UNCHANGED <<pattern, text, lex_pos, tokens, ast, op, result, start>>
  /\ UNCHANGED <<stack, ret, others, prev_ast>>

\* Matcher.find_all: the cursor reached the end of the text, results returned.
FindAllReturn ==
  /\ pc = "find_all"
  /\ pos >= Len(text)
  /\ pc' = "done"
  /\ UNCHANGED <<pattern, text, lex_pos, tokens, ast, op, error, result, start,
                 pos, results>>
  /\ UNCHANGED <<stack, ret, others, prev_ast>>

\* ---------------------------------------------- the search, step by step
\* One activation of _match_at(text, text_pos, ast_idx), with the locals of the
\* _match_pattern or _match_literals it runs: at is where it stands ("enter",
\* "literal" for the call of line 117, "lengths" for the loop of lines 173-186,
\* "fallback" for lines 188-194, "literals" for the loop of lines 204-209).
Frame(text_pos, ast_idx) ==
  [text_pos |-> text_pos, ast_idx |-> ast_idx, at |-> "enter", match_len |-> 0,
   try_len |-> 0, k |-> 0]

\* The activation that is running, and its node.
Top == stack[Len(stack)]
TopNode == ast[Top.ast_idx + 1]

\* The stack once the running activation has returned, has moved on, or has
\* called self._match_at(text, text_pos, ast_idx + 1).
Popped == SubSeq(stack, 1, Len(stack) - 1)
Moved(frame) == [stack EXCEPT ![Len(stack)] = frame]

\* The call as it would be if the recursion stayed on the same node.
Called_SameNode(frame, text_pos) ==
  Append(Moved(frame), Frame(text_pos, Top.ast_idx))

Called(frame, text_pos) ==
  Append(Moved(frame), Frame(text_pos, Top.ast_idx + 1))

\* Matcher._match_at, lines 104-105: all AST nodes are consumed.
MatchAtBase ==
  /\ stack # <<>>
  /\ ret = None
  /\ Top.at = "enter"
  /\ Top.ast_idx >= Len(ast)
  /\ stack' = Popped
  /\ ret' = Some(Result(TRUE, Top.text_pos))
  /\ UNCHANGED <<pattern, text, lex_pos, tokens, ast, pc, op, error, result,
                 start, pos, results, others, prev_ast>>

\* Matcher._match_at, lines 109-117: a LiteralNode.
MatchAtLiteral ==
  /\ stack # <<>>
  /\ ret = None
  /\ Top.at = "enter"
  /\ Top.ast_idx < Len(ast)
  /\ TopNode.kind = "LiteralNode"
  /\ IF Top.text_pos >= Len(text) \/ <<text[Top.text_pos + 1]>> # TopNode.value
     THEN /\ stack' = Popped
          /\ ret' = Some(Result(FALSE, Top.text_pos))
     ELSE /\ stack' = Called([Top EXCEPT !.at = "literal"], Top.text_pos + 1)
          /\ ret' = None
  /\ UNCHANGED <<pattern, text, lex_pos, tokens, ast, pc, op, error, result,
                 start, pos, results, others, prev_ast>>

\* Matcher._match_pattern, lines 134-170: the dispatch on node.literals, and
\* the count of the run of matching characters.
MatchPatternEnter ==
  /\ stack # <<>>
  /\ ret = None
  /\ Top.at = "enter"
  /\ Top.ast_idx < Len(ast)
  /\ TopNode.kind = "PatternNode"
  /\ LET run == CountRun(text, Top.text_pos, TopNode, 0)
     IN IF Truthy(TopNode.literals)
        THEN /\ stack' = Moved([Top EXCEPT !.at = "literals", !.k = 1])
             /\ UNCHANGED <<pc, error>>
        ELSE IF run.raised # NoError
        THEN /\ stack' = <<>>
             /\ pc' = "raised"
             /\ error' = run.raised
        ELSE /\ stack' = Moved([Top EXCEPT !.at = "lengths",
                                           !.match_len = run.match_len,
                                           !.try_len = run.match_len])
             /\ UNCHANGED <<pc, error>>
  /\ UNCHANGED <<pattern, text, lex_pos, tokens, ast, op, result, start, pos,
                 results, ret, others, prev_ast>>

\* Matcher._match_pattern, lines 173-184: one iteration of the loop over
\* range(max_try, min_try - 1, -1).
TryLength ==
  /\ stack # <<>>
  /\ ret = None
  /\ Top.at = "lengths"
  /\ stack' =
       IF Top.try_len < TopNode.min_len
       THEN Moved([Top EXCEPT !.at = "fallback"])
       ELSE IF Top.try_len < 0
               \/ (TopNode.max_len # None /\ Top.try_len > Get(TopNode.max_len))
       THEN Moved([Top EXCEPT !.try_len = Top.try_len - 1])
       ELSE Called(Top, Top.text_pos + Top.try_len)
  /\ UNCHANGED <<pattern, text, lex_pos, tokens, ast, pc, op, error, result,
                 start, pos, results, ret, others, prev_ast>>

\* Matcher._match_pattern, lines 188-194: length 0 once more, or failure.
TryZero ==
  /\ stack # <<>>
  /\ ret = None
  /\ Top.at = "fallback"
  /\ IF TopNode.min_len = 0 /\ Top.match_len = 0
     THEN /\ stack' = Called(Top, Top.text_pos)
          /\ ret' = None
     ELSE /\ stack' = Popped
          /\ ret' = Some(Result(FALSE, Top.text_pos))
  /\ UNCHANGED <<pattern, text, lex_pos, tokens, ast, pc, op, error, result,
                 start, pos, results, others, prev_ast>>

\* Matcher._match_literals, lines 204-207 and 211: one iteration of the loop
\* over node.literals.
TryLiteral ==
  /\ stack # <<>>
  /\ ret = None
  /\ Top.at = "literals"
  /\ IF Top.k > Len(Get(TopNode.literals))
     THEN /\ stack' = Popped
          /\ ret' = Some(Result(FALSE, Top.text_pos))
     ELSE IF StartsWith(Slice(text, Top.text_pos, Len(text)),
                        Get(TopNode.literals)[Top.k])
     THEN /\ stack' = Called(Top, Top.text_pos
                                    + Len(Get(TopNode.literals)[Top.k]))
          /\ ret' = None
     ELSE /\ stack' = Moved([Top EXCEPT !.k = Top.k + 1])
          /\ ret' = None
  /\ UNCHANGED <<pattern, text, lex_pos, tokens, ast, pc, op, error, result,
                 start, pos, results, others, prev_ast>>

\* The call of self._match_at has returned into the running activation: lines
\* 117, 185-186, 191-194 and 208-209.
MatchAtReturn ==
  /\ stack # <<>>
  /\ ret # None
  /\ CASE Top.at = "literal" ->
            /\ stack' = Popped
            /\ ret' = ret
       [] Top.at = "lengths" ->
            IF Get(ret).success
            THEN /\ stack' = Popped
                 /\ ret' = ret
            ELSE /\ stack' = Moved([Top EXCEPT !.try_len = Top.try_len - 1])
                 /\ ret' = None
       [] Top.at = "fallback" ->
            /\ stack' = Popped
            /\ ret' = IF Get(ret).success THEN ret
                      ELSE Some(Result(FALSE, Top.text_pos))
       [] Top.at = "literals" ->
            IF Get(ret).success
            THEN /\ stack' = Popped
                 /\ ret' = ret
            ELSE /\ stack' = Moved([Top EXCEPT !.k = Top.k + 1])
                 /\ ret' = None
  /\ UNCHANGED <<pattern, text, lex_pos, tokens, ast, pc, op, error, result,
                 start, pos, results, others, prev_ast>>

\* Matcher.match_full is called: line 41 calls self._match_at(text, 0, 0).
MatchFullCall ==
  /\ pc = "compiled"
  /\ pc' = "match_full"
  /\ op' = "match_full"
  /\ stack' = <<Frame(0, 0)>>
  /\ ret' = None
  /\ UNCHANGED <<pattern, text, lex_pos, tokens, ast, error, result, start, pos,
                 results, others, prev_ast>>

\* Matcher.match_full, lines 43-46.
MatchFullReturn ==
  /\ pc = "match_full"
  /\ stack = <<>>
  /\ ret # None
  /\ pc' = "done"
  /\ result' = Some(MatchFullResult(text, Get(ret)))
  /\ ret' = None
  /\ UNCHANGED <<pattern, text, lex_pos, tokens, ast, op, error, start, pos,
                 results, stack, others, prev_ast>>

\* Matcher.find_first, line 56: self._match_at(text, start, 0) is called.
FindFirstTry ==
  /\ pc = "find_first"
  /\ stack = <<>>
  /\ ret = None
  /\ start < Len(text)
  /\ stack' = <<Frame(start, 0)>>
  /\ UNCHANGED <<pattern, text, lex_pos, tokens, ast, pc, op, error, result,
                 start, pos, results, ret, others, prev_ast>>

\* Matcher.find_first, lines 58-64: the match is returned, or the loop goes on.
FindFirstNext ==
  /\ pc = "find_first"
  /\ stack = <<>>
  /\ ret # None
  /\ IF Get(ret).success
     THEN /\ pc' = "done"
          /\ result' = Some(MatchResult(TRUE,
                                        Slice(text, start, Get(ret).end_pos),
                                        start, Get(ret).end_pos))
          /\ start' = start
     ELSE /\ start' = start + 1
          /\ UNCHANGED <<pc, result>>
  /\ ret' = None
  /\ UNCHANGED <<pattern, text, lex_pos, tokens, ast, op, error, pos, results,
                 stack, others, prev_ast>>

\* Matcher.find_all, line 79: self._match_at(text, pos, 0) is called.
FindAllTry ==
  /\ pc = "find_all"
  /\ stack = <<>>
  /\ ret = None
  /\ pos < Len(text)
  /\ Len(results) < MaxResults
  /\ stack' = <<Frame(pos, 0)>>
  /\ UNCHANGED <<pattern, text, lex_pos, tokens, ast, pc, op, error, result,
                 start, pos, results, ret, others, prev_ast>>

\* Matcher.find_all, lines 81-90: the match is recorded and the cursor moves
\* to its end, or the cursor moves on by one.
FindAllNext ==
  /\ pc = "find_all"
  /\ stack = <<>>
  /\ ret # None
  /\ IF Get(ret).success
     THEN /\ results' = Append(results,
                               MatchResult(TRUE,
                                           Slice(text, pos, Get(ret).end_pos),
                                           pos, Get(ret).end_pos))
          /\ pos' = Get(ret).end_pos
     ELSE /\ pos' = pos + 1
          /\ results' = results
  /\ ret' = None
  /\ UNCHANGED <<pattern, text, lex_pos, tokens, ast, pc, op, error, result,
                 start, stack, others, prev_ast>>

\* Parser(pattern).parse() once more: a new Parser, a new Lexer, ast = [].
CompileAgain ==
  /\ pc = "compiled"
  /\ prev_ast = None
  /\ prev_ast' = Some(ast)
  /\ pc' = "parse"
  /\ lex_pos' = 0
  /\ tokens' = <<>>
  /\ ast' = <<>>
  /\ UNCHANGED <<pattern, text, op, error, result, start, pos, results, stack,
                 ret, others>>

\* Parser.parse called once more on the same Parser: ast = [] and a new
\* generator over the same Lexer, whose pos stays where the first call left it.
ParseAgain ==
  /\ pc = "compiled"
  /\ prev_ast = None
  /\ prev_ast' = Some(ast)
  /\ pc' = "parse"
  /\ tokens' = <<>>
  /\ ast' = <<>>
  /\ UNCHANGED <<pattern, text, lex_pos, op, error, result, start, pos, results,
                 stack, ret, others>>

\* ----------------------------------------------------------------- inputs
\* "[type:range:length]"
Bracket(type, range, length) ==
  <<"[">> \o type \o <<":">> \o range \o <<":">> \o length \o <<"]">>

str == <<"s", "t", "r">>

\* A pattern around one bracket with a backtick range: what stands before and
\* behind the bracket and the range are the key, the leading "!" and the
\* length field vary.
Variant(key, negated, length) ==
  key.before
    \o Bracket(str, (IF negated THEN <<"!">> ELSE <<>>) \o key.range, length)
    \o key.behind
dec == <<"d", "e", "c">>

\* The pieces the patterns of the general specification are built from.
Pieces ==
  { <<"a">>, <<"b">>,
    Bracket(str, <<>>, <<>>),
    Bracket(dec, <<>>, <<>>),
    Bracket(X, <<>>, <<>>),
    Bracket(X, <<>>, <<"<", "=", "1">>),
    Bracket(str, <<"a">>, <<">", "=", "0">>),
    Bracket(str, <<"a", "|", "b">>, <<"2">>),
    Bracket(str, <<"!", "a">>, <<>>),
    Bracket(str, <<BT, "a", BT, "|", BT, "a", "b", BT>>, <<>>),
    Bracket(str, <<BT>>, <<>>),
    Bracket(str, <<"|">>, <<>>),
    Bracket(str, <<"!">>, <<>>),
    Bracket(str, <<"z", "-", "a">>, <<>>) }

\* The empty pattern, one piece, two pieces.
Patterns == {<<>>} \cup Pieces \cup {p \o q : p \in Pieces, q \in Pieces}

TextChars == {"a", "b", "1"}

Texts == UNION {[1..n -> TextChars] : n \in 0..MaxTextLen}

Init == InitWith(Patterns, Texts)

Next ==
  \/ Tokenize
  \/ ParseReturn
  \/ MatchFull
  \/ FindFirstCall
  \/ FindFirstStep
  \/ FindFirstReturn
  \/ FindAllCall
  \/ FindAllStep
  \/ FindAllReturn

Spec == Init /\ [][Next]_vars

\* ---- compilation alone, over well-formed and malformed patterns
GE == <<">", "=">>
LE == <<"<", "=">>
GT == <<">">>
LT == <<"<">>
Ops == {GE, LE, GT, LT}

\* The decimal numeral of n.
RECURSIVE Numeral(_)
Numeral(n) ==
  IF n < 10 THEN <<chr(48 + n)>>
  ELSE Numeral(n \div 10) \o <<chr(48 + (n % 10))>>

\* Length fields written as one or two operators, each with its integer.
OpItems == Ops \X (0..MaxNum)
OpSeqs == {<<a>> : a \in OpItems} \cup {<<a, b>> : a \in OpItems, b \in OpItems}

RECURSIVE RenderOps(_)
RenderOps(items) ==
  IF items = <<>> THEN <<>>
  ELSE Head(items)[1] \o Numeral(Head(items)[2]) \o RenderOps(Tail(items))

OperatorPatterns == {Bracket(str, <<>>, RenderOps(items)) : items \in OpSeqs}
ExactPatterns == {Bracket(str, <<>>, Numeral(n)) : n \in 0..MaxNum}

TypeFields ==
  { str, X, <<" ", "X", " ">>, <<>>, <<"s", "t">>, <<"s", "t", "r", "x">> }

RangeFields ==
  { <<>>, <<"a">>, <<"!", "a", "-", "b">>, <<BT, "a", BT>>, <<"|">> }

LengthFields ==
  { <<>>, <<"5">>, <<">", "1", "<", "5">>, <<">", "=", "1", "<", "=", "5">>,
    <<">", "=", "5", "<", "=", "3">>, <<"<", "1">>, <<"<", "0">>,
    <<" ", "5", " ">>, <<" ", " ">>, <<">">>, <<">", "=">>, <<"a">>,
    <<"1", ">">>, <<">", "1", "a">>, <<"=", "1">>, <<">", " ", "1">>,
    <<SUP2>>, <<">", "=", SUP2>>, <<"1", SUP2>> }

FieldPatterns ==
  { Bracket(t, r, l) : t \in TypeFields, r \in RangeFields, l \in LengthFields }
    \cup { Bracket(t, <<>>, <<>>) : t \in CharTypeValues }

ShapePatterns ==
  { <<"a">>, <<":">>, <<"]">>, <<"\\">>, <<"\\", "\\">>, <<"\\", "[">>,
    <<"\\", "]">>, <<"[">>, <<"[", "x", ":", ":">>, <<"[", "x", "]">>,
    <<"[", "x", ":", "]">>, <<"[", "x", ":", ":", "]">>,
    <<"[", "x", ":", ":", ":", "]">>, <<"[", "x", ":", "[", ":", "]">> }

Prefixes == { <<"a">>, <<"\\", "[">>, <<"\\", "\\">>, Bracket(X, <<>>, <<>>) }

LexPatterns ==
  {<<>>} \cup OperatorPatterns \cup ExactPatterns \cup FieldPatterns
    \cup ShapePatterns
    \cup { p \o q : p \in Prefixes,
                    q \in ShapePatterns
                         \cup {Bracket(str, <<>>, l) : l \in LengthFields} }

InitLexer == InitWith(LexPatterns, {<<>>})

NextCompile ==
  \/ Tokenize
  \/ ParseReturn

SpecLexer == InitLexer /\ [][NextCompile]_vars

\* ---- match_full of one character-set node, over longer texts
RunLengthFields ==
  { <<>>, <<"3">>, <<"0">>, <<">", "=", "2", "<", "=", "4">>, <<">", "=", "0">>,
    <<"<", "=", "1">>, <<">", "1">>, <<"<", "0">>,
    <<">", "=", "2", "<", "=", "1">>, <<">", "=", "0", "<", "=", "0">> }

SingleNodePatterns ==
  { Bracket(t, r, l) : t \in {str, dec},
                       r \in {<<>>, <<"a">>, <<"a", "|", "1">>, <<"|">>},
                       l \in RunLengthFields }

RunChars == {"a", "1"}

RunTexts ==
  UNION {[1..n -> RunChars] : n \in 0..MaxRunLen}
    \cup { <<"1", "2">>, <<"1", "2", "3">>, <<"1", "2", "3", "4">> }

InitLength == InitWith(SingleNodePatterns, RunTexts)

NextMatchFull ==
  \/ Tokenize
  \/ ParseReturn
  \/ MatchFull

SpecLength == InitLength /\ [][NextMatchFull]_vars

\* ---- match_full of literal-only patterns
LitChars == {"a", "]", ":"}

LiteralPatterns == UNION {[1..n -> LitChars] : n \in 0..MaxLitLen}

LiteralTexts == UNION {[1..n -> LitChars] : n \in 0..(MaxLitLen + 1)}

InitLiteral == InitWith(LiteralPatterns, LiteralTexts)

SpecLiteral == InitLiteral /\ [][NextMatchFull]_vars

\* ---- match_full of patterns of literals, escapes and stray brackets
EscChars == {"a", "[", "]", "\\"}

EscapedTest == <<"\\", "[", "t", "e", "s", "t", "\\", "]">>

EscapePatterns ==
  UNION {[1..n -> EscChars] : n \in 0..MaxEscLen} \cup {EscapedTest}

EscapeTexts ==
  UNION {[1..n -> EscChars] : n \in 0..(MaxEscLen - 1)}
    \cup {<<"[", "t", "e", "s", "t", "]">>}

InitEscape == InitWith(EscapePatterns, EscapeTexts)

SpecEscape == InitEscape /\ [][NextMatchFull]_vars

\* ---- match_full and find_first, the search followed step by step
anum == <<"a", "n", "u", "m">>

\* Nodes of every mode, with the length constraints the lexer can produce.
SearchNodes ==
  { Bracket(X, <<>>, <<>>),
    Bracket(X, <<>>, <<">", "=", "0", "<", "=", "0">>),
    Bracket(str, <<>>, <<">", "=", "0", "<", "0">>),
    Bracket(str, <<>>, <<"<", "1">>),
    Bracket(str, <<"a">>, <<">", "=", "0">>),
    Bracket(str, <<"a", "|", "b">>, <<"2">>),
    Bracket(str, <<"a", "-", "b">>, <<">", "=", "2", "<", "=", "1">>),
    Bracket(anum, <<"!", "a", "-", "z">>, <<>>),
    Bracket(str, <<"!", "a">>, <<">", "=", "0", "<", "=", "2">>),
    Bracket(str, <<"!">>, <<>>),
    Bracket(str, <<BT, "a", BT, "|", BT, "a", "b", BT>>, <<>>),
    Bracket(str, <<BT, "a", "b", BT, "|", BT, "a", BT, "|", BT>>, <<"0">>) }

SearchPatterns ==
  {<<>>, <<"a">>, <<"a", "b">>}
    \cup SearchNodes
    \cup { p \o q : p \in SearchNodes, q \in SearchNodes \cup {<<"a">>, <<"b">>} }
    \cup { Bracket(X, <<>>, <<>>) \o p \o <<"b">> : p \in SearchNodes }

SearchTexts ==
  UNION {[1..n -> {"a", "b"}] : n \in 0..MaxSearchLen}
    \cup { <<"A">>, <<"1">>, <<"A", "1">>, <<"a", "A">>, <<"A", "a">>,
           <<"1", "a", "b">>, <<"A", "1", "b">> }

InitSearch == InitWith(SearchPatterns, SearchTexts)

NextSearch ==
  \/ Tokenize
  \/ ParseReturn
  \/ MatchFullCall
  \/ MatchFullReturn
  \/ FindFirstCall
  \/ FindFirstTry
  \/ FindFirstNext
  \/ FindFirstReturn
  \/ MatchAtBase
  \/ MatchAtLiteral
  \/ MatchPatternEnter
  \/ TryLength
  \/ TryZero
  \/ TryLiteral
  \/ MatchAtReturn

SpecSearch == InitSearch /\ [][NextSearch]_vars

\* A call that has been made runs on: execution is synchronous, nothing
\* suspends it.
RunCall ==
  \/ MatchFullReturn
  \/ FindFirstTry
  \/ FindFirstNext
  \/ FindFirstReturn
  \/ MatchAtBase
  \/ MatchAtLiteral
  \/ MatchPatternEnter
  \/ TryLength
  \/ TryZero
  \/ TryLiteral
  \/ MatchAtReturn

SpecSearchFair == SpecSearch /\ WF_vars(RunCall)

\* ---- match_full, find_first and find_all, the search followed step by step
NextResults ==
  \/ Tokenize
  \/ ParseReturn
  \/ MatchFullCall
  \/ MatchFullReturn
  \/ FindFirstCall
  \/ FindFirstTry
  \/ FindFirstNext
  \/ FindFirstReturn
  \/ FindAllCall
  \/ FindAllTry
  \/ FindAllNext
  \/ FindAllReturn
  \/ MatchAtBase
  \/ MatchAtLiteral
  \/ MatchPatternEnter
  \/ TryLength
  \/ TryZero
  \/ TryLiteral
  \/ MatchAtReturn

SpecResults == InitSearch /\ [][NextResults]_vars

\* ---- the same pattern compiled twice
TwicePatterns ==
  LexPatterns
    \cup { Bracket(str, <<"a", "-", "c">>, <<>>),
           Bracket(str, <<"b", "|", "a", "|", "1">>, <<"2">>),
           Bracket(dec, <<"!", "1", "-", "3", "a">>, <<>>) \o <<"a">>
             \o Bracket(str, <<"b", "a">>, <<>>) }

InitTwice == InitWith(TwicePatterns, {<<>>})

NextTwice ==
  \/ Tokenize
  \/ ParseReturn
  \/ CompileAgain

SpecTwice == InitTwice /\ [][NextTwice]_vars

\* ---- parse() called twice on one Parser
NextRepeat ==
  \/ Tokenize
  \/ ParseReturn
  \/ ParseAgain

SpecRepeat == InitTwice /\ [][NextRepeat]_vars

\* ---- patterns that differ in the length field or the "!" of a backtick range
VariantKeys ==
  [before : {<<>>, Bracket(X, <<>>, <<>>)},
   range : { <<BT, "a", BT>>,
             <<BT, "a", BT, "|", BT, "a", "b", BT>>,
             <<BT, "a", "b", BT, "|", BT, "a", BT, "|", BT>> },
   behind : {<<>>, <<"b">>}]

VariantLengths ==
  {<<>>, <<"0">>, <<"2">>, <<">", "=", "0", "<", "0">>}

VariantPatterns ==
  {Variant(key, negated, length) :
     key \in VariantKeys, negated \in BOOLEAN, length \in VariantLengths}

VariantTexts == UNION {[1..n -> {"a", "b"}] : n \in 0..MaxVariantLen}

InitVariant == InitWith(VariantPatterns, VariantTexts)

\* Parser(other).parse() for a pattern that differs from the one compiled
\* only in the length field or the leading "!" of its backtick range: a new
\* Parser, a new Lexer, ast = [].
CompileVariant ==
  /\ pc = "compiled"
  /\ prev_ast = None
  /\ \E key \in VariantKeys, negated \in BOOLEAN, length \in VariantLengths,
        other_negated \in BOOLEAN, other_length \in VariantLengths :
       /\ pattern = Variant(key, negated, length)
       /\ <<other_negated, other_length>> # <<negated, length>>
       /\ pattern' = Variant(key, other_negated, other_length)
  /\ prev_ast' = Some(ast)
  /\ pc' = "parse"
  /\ lex_pos' = 0
  /\ tokens' = <<>>
  /\ ast' = <<>>
  /\ UNCHANGED <<text, op, error, result, start, pos, results, stack, ret,
                 others>>

NextVariant ==
  \/ Tokenize
  \/ ParseReturn
  \/ CompileVariant
  \/ MatchFull
  \/ FindFirstCall
  \/ FindFirstStep
  \/ FindFirstReturn
  \/ FindAllCall
  \/ FindAllStep
  \/ FindAllReturn

SpecVariant == InitVariant /\ [][NextVariant]_vars

\* ---- calls one after another and from two threads, on one AST
SharedPatterns ==
  { Bracket(X, <<>>, <<>>) \o <<"b">>,
    Bracket(str, <<BT, "a", BT, "|", BT, "a", "b", BT>>, <<>>) \o <<"b">>,
    Bracket(str, <<"|">>, <<>>) }

SharedTexts == UNION {[1..n -> {"a", "b"}] : n \in 0..MaxSharedLen}

InitShared == InitWith(SharedPatterns, SharedTexts)

\* The next call on the same Matcher, with another text, before a second
\* thread is started: the locals of the call that returned are gone, whatever
\* they held.
CallAgain ==
  /\ pc = "done"
  /\ others = <<>>
  /\ pc' = "compiled"
  /\ op' = "none"
  /\ text' \in SharedTexts
  /\ UNCHANGED <<pattern, lex_pos, tokens, ast, error, result, start, pos,
                 results, stack, ret, others, prev_ast>>

\* What belongs to one thread: the text it was given and the locals of the
\* call it is in.
Locals ==
  [text |-> text, pc |-> pc, op |-> op, error |-> error, result |-> result,
   start |-> start, pos |-> pos, results |-> results, stack |-> stack,
   ret |-> ret]

\* A thread as it would resume if find_first's loop variable and find_all's
\* cursor were attributes of the Matcher.
Resume_OnMatcher(locals) == [locals EXCEPT !.start = start, !.pos = pos]

\* A thread resumes with the locals it was suspended with.
Resume(locals) == locals

\* Once the pattern has compiled, and before any call, another thread is
\* started on a Matcher over the same AST, with its own text.
Spawn ==
  /\ pc = "compiled"
  /\ Locals = [Locals EXCEPT !.op = "none", !.result = None, !.start = 0,
                             !.pos = 0, !.results = <<>>]
  /\ others = <<>>
  /\ \E txt \in SharedTexts :
       others' = <<[Locals EXCEPT !.text = txt]>>
  /\ UNCHANGED <<pattern, text, lex_pos, tokens, ast, pc, op, error, result,
                 start, pos, results, stack, ret, prev_ast>>

\* The interpreter switches threads: the running one is suspended, one of the
\* others runs.
Switch ==
  \E i \in 1..Len(others) :
    LET next == Resume(others[i])
    IN /\ others' = [others EXCEPT ![i] = Locals]
       /\ text' = next.text
       /\ pc' = next.pc
       /\ op' = next.op
       /\ error' = next.error
       /\ result' = next.result
       /\ start' = next.start
       /\ pos' = next.pos
       /\ results' = next.results
       /\ stack' = next.stack
       /\ ret' = next.ret
       /\ UNCHANGED <<pattern, lex_pos, tokens, ast, prev_ast>>

NextShared ==
  \/ Tokenize
  \/ ParseReturn
  \/ Spawn
  \/ Switch
  \/ CallAgain
  \/ MatchFullCall
  \/ MatchFullReturn
  \/ FindFirstCall
  \/ FindFirstTry
  \/ FindFirstNext
  \/ FindFirstReturn
  \/ FindAllCall
  \/ FindAllTry
  \/ FindAllNext
  \/ FindAllReturn
  \/ MatchAtBase
  \/ MatchAtLiteral
  \/ MatchPatternEnter
  \/ TryLength
  \/ TryZero
  \/ TryLiteral
  \/ MatchAtReturn

SpecShared == InitShared /\ [][NextShared]_vars

\* ---------------------------------------------------- what a pattern means
\* The reference the claims speak of, independent of the search order: the set
\* of text positions at which the nodes from the i-th on (1-based) can be
\* exhausted when started at position p.  A literal node consumes its
\* character; a literal-alternatives node any alternative that is a prefix of
\* the rest; a character-set or wildcard node any run of n member characters
\* with min <= n <= max.
IsMember(node, c) ==
  IF node.char_set = None THEN TRUE
  ELSE LET members == {Get(node.char_set)[k] : k \in 1..Len(Get(node.char_set))}
       IN IF node.negated THEN ord[c] \notin members ELSE ord[c] \in members

RunLengths(txt, p, node) ==
  { n \in 0..(Len(txt) - p) :
      /\ n >= node.min_len
      /\ (node.max_len # None => n <= Get(node.max_len))
      /\ \A k \in 1..n : IsMember(node, txt[p + k]) }

RECURSIVE EndsFrom(_, _, _, _)
EndsFrom(nodes, txt, p, i) ==
  IF i > Len(nodes) THEN {p}
  ELSE LET node == nodes[i]
       IN IF node.kind = "LiteralNode"
          THEN (IF p < Len(txt) /\ <<txt[p + 1]>> = node.value
                THEN EndsFrom(nodes, txt, p + 1, i + 1) ELSE {})
          ELSE IF node.literals # None
          THEN UNION { EndsFrom(nodes, txt, p + Len(Get(node.literals)[k]), i + 1) :
                         k \in { j \in 1..Len(Get(node.literals)) :
                                   StartsWith(Slice(txt, p, Len(txt)),
                                              Get(node.literals)[j]) } }
          ELSE UNION { EndsFrom(nodes, txt, p + n, i + 1) :
                         n \in RunLengths(txt, p, node) }

\* Some decomposition consumes the whole text.
FullyMatches(nodes, txt) == Len(txt) \in EndsFrom(nodes, txt, 0, 1)

\* The start offsets, 0..len(text), at which the AST can be exhausted.
MatchingOffsets(nodes, txt) ==
  { o \in 0..Len(txt) : EndsFrom(nodes, txt, o, 1) # {} }

Returned_(method) == pc = "done" /\ op = method

\* ----------------------------------------------------------------- claims
\* C1: match_full returns true iff some decomposition of the text along the
\* AST consumes the whole text.
C1_FullMatchIffDecomposition ==
  Returned_("match_full") =>
    (Get(result).matched <=> FullyMatches(ast, text))

\* C2: find_all terminates.  Its loop is deterministic in the cursor: an
\* iteration that leaves the cursor where it was is repeated for ever, and the
\* cursor never moves back, so the loop reaches its stop condition exactly
\* when every iteration moves the cursor forward.
C2_FindAllTerminates ==
  [][(pc = "find_all" /\ pc' = "find_all") => pos' > pos]_vars

\* concatenating the matches with the unmatched text between and around them
RECURSIVE Rebuild(_, _, _, _)
Rebuild(txt, spans, k, from) ==
  IF k > Len(spans) THEN Slice(txt, from, Len(txt))
  ELSE Slice(txt, from, spans[k].start) \o spans[k].value
         \o Rebuild(txt, spans, k + 1, spans[k].end)

\* C3: the spans find_all has recorded are strictly increasing in start, each
\* ends no later than the next starts, and on return the matches with the
\* unmatched text between them rebuild the text.
C3_SpansDisjointIncreasing ==
  op = "find_all" =>
    /\ \A i \in 1..Len(results) : \A j \in 1..Len(results) :
         i < j => results[i].start < results[j].start
    /\ \A i \in 1..(Len(results) - 1) : results[i].end <= results[i + 1].start
    /\ pc = "done" => Rebuild(text, results, 1, 0) = text

\* C4: once the pattern has compiled, no Matcher method ends in an exception.
C4_MatchingNeverRaises == ~(pc = "raised" /\ op # "none")

\* C5: find_first returns the match at the smallest offset in 0..len(text) at
\* which the AST can be exhausted, and None only if there is no such offset.
C5_FindFirstSmallestOffset ==
  Returned_("find_first") =>
    LET offsets == MatchingOffsets(ast, text)
    IN IF offsets = {} THEN result = None
       ELSE /\ result # None
            /\ Get(result).matched
            /\ Get(result).start \in offsets
            /\ \A o \in offsets : Get(result).start <= o
            /\ Get(result).end \in EndsFrom(ast, text, Get(result).start, 1)
            /\ Get(result).value
                 = Slice(text, Get(result).start, Get(result).end)

\* The bounds the parser reads off the k-th token's LengthConstraint.
MinOf(k) == get_min(Get(tokens[k].length))
MaxOf(k) == get_max(Get(tokens[k].length))

\* C6: every LengthConstraint the lexer yields has min >= 0, max unbounded or
\* >= 0, and min <= max when max is bounded.
C6_LengthConstraintWellFormed ==
  \A k \in 1..Len(tokens) :
    tokens[k].token_type = "PATTERN" =>
      /\ MinOf(k) >= 0
      /\ MaxOf(k) # None => (Get(MaxOf(k)) >= 0 /\ MinOf(k) <= Get(MaxOf(k)))

\* match_full has run and returned true.
MatchedFully ==
  pc = "done" /\ op = "match_full" /\ Get(result).matched

AfterMatchFull == op = "match_full"

IsLetter(c) ==
  (ord[c] >= 65 /\ ord[c] <= 90) \/ (ord[c] >= 97 /\ ord[c] <= 122)

IsInteger(s) == s # <<>> /\ \A k \in 1..Len(s) : isdecimal(s[k])

RECURSIVE IsOperatorRun(_)
IsOperatorRun(s) ==
  \E o \in Ops : \E n \in 1..Len(s) :
    /\ Len(o) + n <= Len(s)
    /\ SubSeq(s, 1, Len(o)) = o
    /\ IsInteger(SubSeq(s, Len(o) + 1, Len(o) + n))
    /\ \/ Len(o) + n = Len(s)
       \/ /\ ~isdecimal(s[Len(o) + n + 1])
          /\ IsOperatorRun(SubSeq(s, Len(o) + n + 1, Len(s)))

BadLengthField(field) ==
  LET s == Strip(field)
  IN s # <<>> /\ ~IsInteger(s) /\ ~IsOperatorRun(s)

BadBracketContent(content) ==
  LET fields == Split(content, ":")
  IN \/ Len(fields) # 3
     \/ Lower(Strip(fields[1])) \notin CharTypeValues
     \/ BadLengthField(fields[3])

RECURSIVE IsMalformedFrom(_, _)
IsMalformedFrom(p, i) ==
  IF i >= Len(p) THEN FALSE
  ELSE IF p[i + 1] = "\\"
  THEN i + 1 = Len(p) \/ IsMalformedFrom(p, i + 2)
  ELSE IF p[i + 1] = "["
  THEN LET close == Find(p, "]", i + 1)
       IN \/ close = -1
          \/ BadBracketContent(Slice(p, i + 1, close))
          \/ IsMalformedFrom(p, close + 1)
  ELSE IsMalformedFrom(p, i + 1)

IsMalformed(p) == IsMalformedFrom(p, 0)

\* C8: compilation ends in a LexerError exactly for the malformed patterns,
\* and otherwise returns an AST and raises nothing.
C8_LexerErrorExactlyWhenMalformed ==
  /\ pc = "raised" /\ op = "none"
       => error.type = "LexerError" /\ IsMalformed(pattern)
  /\ pc = "compiled" => ~IsMalformed(pattern)

LiteralOnly(p) == \A k \in 1..Len(p) : p[k] \notin {"[", "\\"}

\* C9: a literal-only pattern compiles, the empty one to zero nodes, and fully
\* matches exactly the text equal to it.
C9_LiteralOnly ==
  LiteralOnly(pattern) =>
    /\ pc # "raised"
    /\ (pattern = <<>> /\ pc # "parse") => ast = <<>>
    /\ AfterMatchFull => (MatchedFully <=> text = pattern)

\* C9 witness: a non-empty literal-only pattern has matched itself.
C9_Witness ==
  /\ MatchedFully
  /\ LiteralOnly(pattern)
  /\ pattern # <<>>
  /\ text = pattern

\* The bounds the claim gives for a length field of operators: the last
\* operator that sets a bound decides it.
RECURSIVE ClaimedMin(_, _)
ClaimedMin(items, min) ==
  IF items = <<>> THEN min
  ELSE ClaimedMin(Tail(items),
                  IF Head(items)[1] = GE THEN Head(items)[2]
                  ELSE IF Head(items)[1] = GT THEN Head(items)[2] + 1
                  ELSE min)

RECURSIVE ClaimedMax(_, _)
ClaimedMax(items, max) ==
  IF items = <<>> THEN max
  ELSE ClaimedMax(Tail(items),
                  IF Head(items)[1] = LE THEN Some(Head(items)[2])
                  ELSE IF Head(items)[1] = LT THEN Some(Head(items)[2] - 1)
                  ELSE max)

\* Each generated length field with the bounds the claim gives it; zero says
\* whether the field holds an explicit >=0.
ClaimedBounds ==
  { [pattern |-> Bracket(str, <<>>, RenderOps(items)),
     min |-> ClaimedMin(items, 1), max |-> ClaimedMax(items, None),
     zero |-> \E k \in 1..Len(items) : items[k] = <<GE, 0>>,
     exact |-> FALSE] : items \in OpSeqs }
  \cup
  { [pattern |-> Bracket(str, <<>>, Numeral(n)), min |-> n, max |-> Some(n),
     zero |-> FALSE, exact |-> TRUE] : n \in 0..MaxNum }
  \cup
  { [pattern |-> Bracket(str, <<>>, <<>>), min |-> 1, max |-> None,
     zero |-> FALSE, exact |-> FALSE],
    [pattern |-> Bracket(str, <<>>, <<">", "1", "<", "5">>), min |-> 2,
     max |-> Some(4), zero |-> FALSE, exact |-> FALSE],
    [pattern |-> Bracket(str, <<>>, <<">", "=", "1", "<", "=", "5">>),
     min |-> 1, max |-> Some(5), zero |-> FALSE, exact |-> FALSE],
    [pattern |-> Bracket(str, <<>>, <<"5">>), min |-> 5, max |-> Some(5),
     zero |-> FALSE, exact |-> TRUE] }

BuiltAst == [k \in 1..Len(tokens) |-> TokenToNode(tokens[k])]

\* The call a thread has finished ended as it ends when run alone on the AST
\* and the thread's text.
AsAlone(locals) ==
  (locals.pc \in {"done", "raised"} /\ locals.op # "none") =>
    LET alone ==
          CASE locals.op = "match_full" -> MatchFullOf(ast, locals.text)
            [] locals.op = "find_first" -> FindFirstFrom(ast, locals.text, 0)
            [] locals.op = "find_all" -> FindAllFrom(ast, locals.text, 0, <<>>)
        mine ==
          IF locals.pc = "raised" THEN Raised(locals.error)
          ELSE IF locals.op = "find_all" THEN Returned(locals.results)
          ELSE Returned(locals.result)
    IN mine = alone

\* C11: whatever calls have been made on the Matchers sharing the AST, one
\* after another or interleaved from two threads, the AST is the one that was
\* compiled and every finished call ended as it ends when run alone.
C11_SharedAstStateless ==
  pc # "parse" =>
    /\ ast = BuiltAst
    /\ AsAlone(Locals)
    /\ \A i \in 1..Len(others) : AsAlone(others[i])

\* C11 witness: two threads have both returned from find_first with a match,
\* each on its own text.
C11_Witness ==
  /\ others # <<>>
  /\ pc = "done" /\ op = "find_first" /\ result # None
  /\ others[1].pc = "done" /\ others[1].op = "find_first"
  /\ others[1].result # None
  /\ others[1].text # text

\* C12: the second compilation of a pattern returns an AST with as many nodes
\* as the first, node for node of the same kind, with the same character-set
\* string, the same literal alternatives in the same order, and the same min,
\* max and negation flag.
C12_CompileTwiceSameAst ==
  prev_ast # None =>
    /\ pc # "raised"
    /\ pc = "compiled" =>
         /\ Len(ast) = Len(Get(prev_ast))
         /\ \A k \in 1..Len(ast) :
              LET node == ast[k]
                  first == Get(prev_ast)[k]
              IN /\ node.kind = first.kind
                 /\ node.kind = "LiteralNode" => node.value = first.value
                 /\ node.kind = "PatternNode" =>
                      /\ node.char_set = first.char_set
                      /\ node.literals = first.literals
                      /\ node.min_len = first.min_len
                      /\ node.max_len = first.max_len
                      /\ node.negated = first.negated

\* C12 witness: [str:b|a|1:2] has been compiled twice, to the set "1ab".
C12_Witness ==
  /\ pc = "compiled"
  /\ prev_ast # None
  /\ pattern = Bracket(str, <<"b", "|", "a", "|", "1">>, <<"2">>)
  /\ ast[1].char_set = Some(<<49, 97, 98>>)

\* The pattern from index i on opens no bracket and ends no escape short:
\* every "[" in it follows a backslash, every backslash is followed by a
\* character.
RECURSIVE BracketFreeFrom(_, _)
BracketFreeFrom(p, i) ==
  IF i >= Len(p) THEN TRUE
  ELSE IF p[i + 1] = "\\" THEN i + 1 < Len(p) /\ BracketFreeFrom(p, i + 2)
  ELSE p[i + 1] # "[" /\ BracketFreeFrom(p, i + 1)

\* The pattern up to index n with the backslash of each escape removed.
RECURSIVE UnescapedFrom(_, _, _)
UnescapedFrom(p, i, n) ==
  IF i >= n THEN <<>>
  ELSE IF p[i + 1] = "\\" THEN <<p[i + 2]>> \o UnescapedFrom(p, i + 2, n)
  ELSE <<p[i + 1]>> \o UnescapedFrom(p, i + 1, n)

\* The values of the tokens yielded so far, concatenated.
RECURSIVE TokenValues(_)
TokenValues(toks) ==
  IF toks = <<>> THEN <<>> ELSE Head(toks).value \o TokenValues(Tail(toks))

\* C13: outside brackets the lexer yields one LITERAL token per character, an
\* escape counting as the one character after its backslash: the token values
\* of a bracket-free pattern, concatenated, are the pattern with the
\* backslashes of its escapes removed, and match("\\[test\\]", "[test]") is
\* true.
C13_LiteralPerCharacter ==
  BracketFreeFrom(pattern, 0) =>
    /\ pc # "raised"
    /\ \A k \in 1..Len(tokens) :
         tokens[k].token_type = "LITERAL" /\ Len(tokens[k].value) = 1
    /\ TokenValues(tokens) = UnescapedFrom(pattern, 0, lex_pos)
    /\ pc # "parse" =>
         /\ lex_pos = Len(pattern)
         /\ Len(ast) = Len(UnescapedFrom(pattern, 0, Len(pattern)))
    /\ AfterMatchFull =>
         (MatchedFully <=> text = UnescapedFrom(pattern, 0, Len(pattern)))

\* C13 witness: the pattern \[test\] has matched the text [test].
C13_Witness ==
  /\ MatchedFully
  /\ pattern = EscapedTest
  /\ text = <<"[", "t", "e", "s", "t", "]">>
  /\ Len(tokens) = 6

\* The search that has just come back to match_full, find_first or find_all
\* handed back what _match_at as a whole gives from the same offset.
SearchAgrees ==
  (stack = <<>> /\ ret # None) =>
    Get(ret) = MatchAt(ast, text,
                       IF pc = "find_first" THEN start
                       ELSE IF pc = "find_all" THEN pos ELSE 0, 0)

\* A node in character-set mode whose range began with "!".
NegatedSetNode(node) ==
  /\ node.kind = "PatternNode"
  /\ node.literals = None
  /\ node.char_set # None
  /\ node.negated

\* The character at index i of the text is outside the node's resolved set.
Outside(node, i) ==
  \A k \in 1..Len(Get(node.char_set)) : Get(node.char_set)[k] # ord[text[i + 1]]

\* C14: of a negated character-set node every character consumed is absent from
\* the resolved set, and a character outside the set is accepted: it is
\* counted into the run, up to the maximum.  With [anum:!a-z:] a run holds no
\* lowercase letter and may hold uppercase letters and digits.
C14_NegatedSet ==
  /\ \A i \in 1..Len(stack) :
       (stack[i].ast_idx < Len(ast) /\ NegatedSetNode(ast[stack[i].ast_idx + 1]))
       => LET frame == stack[i]
              node == ast[frame.ast_idx + 1]
              run == CountRun(text, frame.text_pos, node, 0)
          IN /\ i < Len(stack) =>
                  \A j \in frame.text_pos..(stack[i + 1].text_pos - 1) :
                    Outside(node, j)
             /\ frame.at = "enter" =>
                  /\ run.raised = NoError
                  /\ \A j \in frame.text_pos..(frame.text_pos + run.match_len - 1) :
                       Outside(node, j)
                  /\ ( /\ frame.text_pos + run.match_len < Len(text)
                       /\ Outside(node, frame.text_pos + run.match_len) )
                     => ( /\ node.max_len # None
                          /\ run.match_len >= Get(node.max_len) )
  /\ (pattern = Bracket(anum, <<"!", "a", "-", "z">>, <<>>) /\ pc = "done"
        /\ op = "match_full")
     => ( Get(result).matched <=>
            /\ text # <<>>
            /\ \A j \in 1..Len(text) : ~(ord[text[j]] \in 97..122) )

\* The i-th activation runs a character-set or wildcard node and has called
\* the continuation: the activation above it.
TriesLength(i) ==
  /\ i < Len(stack)
  /\ stack[i].at \in {"lengths", "fallback"}

\* The run length the i-th activation is trying.
LengthTried(i) == stack[i + 1].text_pos - stack[i].text_pos

\* C15: every run length at which a character-set or wildcard node attempts
\* the continuation, the zero-length fallback included, lies within the
\* node's [min, max].
C15_LengthWithinBounds ==
  \A i \in 1..Len(stack) :
    TriesLength(i) =>
      LET node == ast[stack[i].ast_idx + 1]
      IN /\ LengthTried(i) >= node.min_len
         /\ node.max_len # None => LengthTried(i) <= Get(node.max_len)

\* The three matching modes of a PATTERN token or a PatternNode.
WildcardMode(n) == n.char_set = None /\ n.literals = None
LiteralsMode(n) ==
  n.literals # None /\ Get(n.literals) # <<>> /\ n.char_set = None
CharSetMode(n) ==
  n.char_set # None /\ Get(n.char_set) # <<>> /\ n.literals = None

ModesOf(n) ==
  {m \in {"wildcard", "literals", "charset"} :
     \/ m = "wildcard" /\ WildcardMode(n)
     \/ m = "literals" /\ LiteralsMode(n)
     \/ m = "charset" /\ CharSetMode(n)}

\* C16: every PATTERN token and the PatternNode built from it are in exactly
\* one mode, the same one, and the matcher runs the node in that mode: the
\* loop over the alternatives for literals, the run count and the loop over
\* the lengths for a wildcard or a character set.
C16_ExactlyOneMode ==
  /\ \A k \in 1..Len(tokens) :
       tokens[k].token_type = "PATTERN" =>
         /\ Cardinality(ModesOf(tokens[k])) = 1
         /\ k <= Len(ast) => ModesOf(ast[k]) = ModesOf(tokens[k])
  /\ \A i \in 1..Len(stack) :
       stack[i].at \in {"literals", "lengths", "fallback"} =>
         ModesOf(ast[stack[i].ast_idx + 1])
           = IF stack[i].at = "literals" THEN {"literals"}
             ELSE IF ast[stack[i].ast_idx + 1].char_set = None
             THEN {"wildcard"} ELSE {"charset"}

\* The k-th alternative of the node the i-th activation runs, whether the text
\* at the activation's position starts with it, and what the continuation
\* gives behind it.
Alternative(i, k) == Get(ast[stack[i].ast_idx + 1].literals)[k]
IsPrefixAt(i, k) ==
  StartsWith(Slice(text, stack[i].text_pos, Len(text)), Alternative(i, k))
Continuation(i, k) ==
  MatchAt(ast, text, stack[i].text_pos + Len(Alternative(i, k)),
          stack[i].ast_idx + 1)

\* The alternatives, in declared order, that the text starts with and whose
\* continuation succeeds.
Winners(i) ==
  {k \in 1..Len(Get(ast[stack[i].ast_idx + 1].literals)) :
     IsPrefixAt(i, k) /\ Continuation(i, k).success}

\* No continuation behind an alternative of the i-th activation raises.
NoneRaises(i) ==
  \A k \in 1..Len(Get(ast[stack[i].ast_idx + 1].literals)) :
    IsPrefixAt(i, k) => Continuation(i, k).raised = NoError

\* C17: a literal-alternatives node tries its alternatives in declared order.
\* The one being tried is a prefix of the remaining text and the continuation
\* runs behind it; every earlier one either is no prefix or has a failed
\* continuation; the node gives the result of the first alternative that is a
\* prefix with a succeeding continuation, and fails only if there is none.
C17_LiteralAlternativesInOrder ==
  \A i \in 1..Len(stack) :
    LET frame == stack[i]
    IN /\ frame.at = "literals" =>
            /\ \A j \in 1..(frame.k - 1) :
                 j <= Len(Get(ast[frame.ast_idx + 1].literals)) =>
                   (~IsPrefixAt(i, j) \/ ~Continuation(i, j).success)
            /\ i < Len(stack) =>
                 /\ IsPrefixAt(i, frame.k)
                 /\ stack[i + 1].ast_idx = frame.ast_idx + 1
                 /\ stack[i + 1].text_pos
                      = frame.text_pos + Len(Alternative(i, frame.k))
       /\ ( /\ frame.at = "enter"
            /\ frame.ast_idx < Len(ast)
            /\ ast[frame.ast_idx + 1].kind = "PatternNode"
            /\ Truthy(ast[frame.ast_idx + 1].literals)
            /\ NoneRaises(i) )
          => LET r == MatchAt(ast, text, frame.text_pos, frame.ast_idx)
                 first == CHOOSE k \in Winners(i) : \A j \in Winners(i) : k <= j
             IN IF Winners(i) = {} THEN r = Result(FALSE, frame.text_pos)
                ELSE r = Continuation(i, first)

\* C17 witness: the second alternative is being tried after the first, which
\* the text starts with, had a failing continuation.
C17_Witness ==
  \E i \in 1..Len(stack) :
    /\ stack[i].at = "literals"
    /\ stack[i].k = 2
    /\ i < Len(stack)
    /\ IsPrefixAt(i, 1)
    /\ Alternative(i, 1) # Alternative(i, 2)
    /\ ~Continuation(i, 1).success

\* The node of the i-th activation is run by the run count and the loop over
\* the lengths: it is a PatternNode without literal alternatives.
RunsLengths(i) ==
  /\ stack[i].ast_idx < Len(ast)
  /\ ast[stack[i].ast_idx + 1].kind = "PatternNode"
  /\ ~Truthy(ast[stack[i].ast_idx + 1].literals)

\* L: the longest run of member characters from the i-th activation's
\* position, capped at the node's max when that is bounded.
LongestRun(i) ==
  LET node == ast[stack[i].ast_idx + 1]
      p == stack[i].text_pos
      run == CHOOSE n \in 0..(Len(text) - p) :
               /\ \A k \in 1..n : IsMember(node, text[p + k])
               /\ n < Len(text) - p => ~IsMember(node, text[p + n + 1])
  IN IF node.max_len # None /\ Get(node.max_len) < run
     THEN Get(node.max_len) ELSE run

\* What the continuation gives behind a run of n characters.
Behind(i, n) ==
  MatchAt(ast, text, stack[i].text_pos + n, stack[i].ast_idx + 1)

\* The lengths n, min <= n <= L, behind which the continuation succeeds.
Fitting(i) ==
  {n \in ast[stack[i].ast_idx + 1].min_len..LongestRun(i) : Behind(i, n).success}

\* C18: a character-set or wildcard node consumes the largest length n,
\* min <= n <= L, behind which the continuation succeeds, and fails exactly
\* when there is none; the length being tried lies in min..L and behind every
\* larger length of min..L the continuation has failed.
C18_LargestFittingLength ==
  \A i \in 1..Len(stack) :
    /\ ( /\ stack[i].at = "enter"
         /\ RunsLengths(i)
         /\ MatchAt(ast, text, stack[i].text_pos, stack[i].ast_idx).raised
              = NoError )
       => LET r == MatchAt(ast, text, stack[i].text_pos, stack[i].ast_idx)
              n == CHOOSE m \in Fitting(i) : \A j \in Fitting(i) : j <= m
          IN IF Fitting(i) = {} THEN r = Result(FALSE, stack[i].text_pos)
             ELSE r = Behind(i, n)
    /\ TriesLength(i) =>
         /\ LengthTried(i) \in
              ast[stack[i].ast_idx + 1].min_len..LongestRun(i)
         /\ \A m \in (LengthTried(i) + 1)..LongestRun(i) :
              m >= ast[stack[i].ast_idx + 1].min_len => ~Behind(i, m).success

\* find(pattern, text from offset from on): what find_first returns on the
\* rest of the text.
FindOnRest(from) == FindFirstFrom(ast, Slice(text, from, Len(text)), 0)

\* The match m is the match found found on the rest of the text from offset
\* from, its span counted from there.
SameMatch(m, found, from) ==
  /\ found # None
  /\ m.matched = Get(found).matched
  /\ m.value = Get(found).value
  /\ m.start = from + Get(found).start
  /\ m.end = from + Get(found).end

\* C19: where find_all and find both return, find_all's list is empty exactly
\* when find returns none, its first element is what find returns, each later
\* element is what find returns on the text from the previous match's end on,
\* and find returns none on the text behind the last match.
C19_FindAllRepeatsFindFirst ==
  (Returned_("find_all") /\ FindOnRest(0).raised = NoError) =>
    /\ results = <<>> <=> FindOnRest(0).value = None
    /\ results # <<>> => results[1] = Get(FindOnRest(0).value)
    /\ \A k \in 2..Len(results) :
         SameMatch(results[k], FindOnRest(results[k - 1].end).value,
                   results[k - 1].end)
    /\ results # <<>> =>
         FindOnRest(results[Len(results)].end).value = None

\* C19 witness: find_all has returned two matches with text between them.
C19_Witness ==
  /\ Returned_("find_all")
  /\ Len(results) = 2
  /\ results[1].end < results[2].start

\* The activations are nested one AST index apart, from index 0 on, so no
\* deeper than the number of nodes plus one; a node's loop variable stays
\* within the finitely many lengths or alternatives it can try.
NestedByIndex ==
  /\ Len(stack) <= Len(ast) + 1
  /\ \A i \in 1..Len(stack) :
       /\ stack[i].ast_idx = i - 1
       /\ stack[i].at = "lengths" => stack[i].try_len \in -1..Len(text)
       /\ stack[i].at = "literals" =>
            stack[i].k \in 1..(Len(Get(ast[i].literals)) + 1)

\* C20: match_full and find_first terminate: every recursive step advances
\* the AST index by one, the nesting is no deeper than the number of nodes
\* plus one, and a call that has been made returns or raises.
C20_SearchTerminates ==
  /\ []NestedByIndex
  /\ (pc \in {"match_full", "find_first"}) ~> (pc \in {"done", "raised"})

\* C20 witness: a search three nodes deep has backtracked and reached the base
\* case again.
C20_Witness ==
  /\ Len(ast) = 3
  /\ Len(stack) = 4
  /\ stack[1].at = "lengths"
  /\ stack[1].try_len < stack[1].match_len

\* The characters of txt from offset from up to, not including, offset to.
Span(txt, from, to) == [k \in 1..(to - from) |-> txt[from + k]]

\* A successful MatchResult lies within the text and carries its span.
WithinText(m) ==
  m.matched =>
    /\ 0 <= m.start
    /\ m.start <= m.end
    /\ m.end <= Len(text)
    /\ m.value = Span(text, m.start, m.end)

\* C21: every successful MatchResult of match_full, find_first or find_all has
\* 0 <= start <= end <= len(text) and value = text[start:end], and no
\* activation of _match_at is handed a text position beyond len(text).
C21_ResultsWithinText ==
  /\ \A i \in 1..Len(stack) : stack[i].text_pos \in 0..Len(text)
  /\ ret # None => Get(ret).end_pos \in 0..Len(text)
  /\ result # None => WithinText(Get(result))
  /\ \A i \in 1..Len(results) : WithinText(results[i])

\* C21 witness: find_all has recorded a match that ends at the end of the text
\* and starts inside it, after a literal alternative took the search to the
\* end of the text.
C21_Witness ==
  /\ op = "find_all"
  /\ pc = "done"
  /\ results # <<>>
  /\ results[Len(results)].end = Len(text)
  /\ results[Len(results)].start > 0
  /\ results[Len(results)].start < results[Len(results)].end
  /\ \E i \in 1..Len(ast) : ast[i].kind = "PatternNode" /\ Truthy(ast[i].literals)

\* C22: whenever match(pattern, text) is true, the empty text included,
\* find(pattern, text) is not None and is the whole text.
C22_MatchImpliesFind ==
  (pc = "compiled" /\ match(ast, text) = Returned(TRUE))
    => find(ast, text) = Returned(Some(text))

\* C23: the second parse() on one Parser returns an AST structurally
\* identical to the one its first parse() returned.
C23_ParseRepeatable ==
  (pc = "compiled" /\ prev_ast # None) => ast = Get(prev_ast)

\* The literal-alternatives nodes of the AST, by index from 1.
LiteralsNodes ==
  {i \in 1..Len(ast) : ast[i].kind = "PatternNode" /\ Truthy(ast[i].literals)}

\* Wherever the i-th node matches, it has consumed one of its alternatives:
\* the text starts with the alternative at that position and the result is
\* the continuation's behind it.
ConsumesAnAlternative(i) ==
  \A p \in 0..Len(text) :
    LET r == MatchAt(ast, text, p, i - 1)
    IN r.success =>
         \E k \in 1..Len(Get(ast[i].literals)) :
           LET literal == Get(ast[i].literals)[k]
           IN /\ StartsWith(Slice(text, p, Len(text)), literal)
              /\ MatchAt(ast, text, p + Len(literal), i) = r

\* C24: a literal-alternatives node consumes the length of one of its
\* alternatives whatever its length constraint and negation flag, and a
\* pattern that differs from another only in the length field or the leading
\* "!" of a backtick range gives the same match_full, find_first and find_all
\* results on the same text.
C24_LiteralsIgnoreLengthAndNegation ==
  /\ pc # "parse" => \A i \in LiteralsNodes : ConsumesAnAlternative(i)
  /\ (pc = "compiled" /\ prev_ast # None) =>
       /\ MatchFullOf(ast, text) = MatchFullOf(Get(prev_ast), text)
       /\ FindFirstFrom(ast, text, 0) = FindFirstFrom(Get(prev_ast), text, 0)
       /\ FindAllFrom(ast, text, 0, <<>>)
            = FindAllFrom(Get(prev_ast), text, 0, <<>>)
  /\ (pc = "done" /\ prev_ast # None) =>
       /\ op = "match_full" => Returned(result) = MatchFullOf(Get(prev_ast), text)
       /\ op = "find_first" =>
            Returned(result) = FindFirstFrom(Get(prev_ast), text, 0)
       /\ op = "find_all" =>
            Returned(results) = FindAllFrom(Get(prev_ast), text, 0, <<>>)

\* C24 witness: the negated variant with exact length 0 of a pattern with a
\* backtick range, compiled after the plain variant, has found "ab" behind the
\* first character of the text.
C24_Witness ==
  /\ pc = "done"
  /\ op = "find_first"
  /\ prev_ast # None
  /\ \E i \in LiteralsNodes :
       /\ ast[i].negated
       /\ ast[i].max_len = Some(0)
       /\ ~Get(prev_ast)[i].negated
       /\ Get(prev_ast)[i].max_len = None
  /\ result # None
  /\ Get(result).value = <<"a", "b">>
  /\ Get(result).start = 1

====
